---- MODULE Spec2Model ----
(***************************************************************************)
(* Model of pyLiDAR-SLAM's benchmark report builder                        *)
(* (build_benchmark_md.py: build_benchmark) and of the sequence selection  *)
(* of the CT_ICP dataset loader (slam/dataset/ct_icp_dataset.py:           *)
(* CT_ICPDatasetLoader.sequences).                                         *)
(*                                                                         *)
(* Floating point values are modelled as exact rationals [num, den]        *)
(* (den > 0); Python's None and float("inf") are flagged records.          *)
(* The table of command lines (.hydra/overrides.yaml) and the rotational   *)
(* error, which never reach the ranking or the error columns, are left out.*)
(***************************************************************************)
EXTENDS Integers, Sequences, FiniteSets, TLC

VARIABLES
    pc,              \* position of build_benchmark: walk, rank, render, write, done, crashed
    directory_list,  \* paths returned by os.walk, in walk order
    dir_idx,         \* number of directories of directory_list already visited
    visited,         \* what was found on disk under each visited directory (history)
    metrics,         \* dict root_path -> computed metrics, in insertion order
    db_metrics,      \* list of (path, AVG_tr_err, has_all_sequences)
    main_table_lines,\* rows of the main table (the three header lines left out)
    written,         \* TRUE once benchmark.md is written
    error,           \* the exception that ended the run, "" if none
    config,          \* CT_ICPDatasetConfig: train/eval/test_sequences
    seqname_to_seqid,\* CT_ICPDatasetLoader: sequence name -> sequence id
    result           \* value returned by CT_ICPDatasetLoader.sequences()

vars == <<pc, directory_list, dir_idx, visited, metrics, db_metrics,
          main_table_lines, written, error, config, seqname_to_seqid, result>>

bench_vars == <<pc, directory_list, dir_idx, visited, metrics, db_metrics,
                main_table_lines, written, error>>

loader_vars == <<config, seqname_to_seqid, result>>

(***************************************************************************)
(* Bounds of the model                                                     *)
(***************************************************************************)
MaxDirs == 2        \* directories returned by os.walk

(***************************************************************************)
(* Numbers                                                                 *)
(***************************************************************************)
Rat(n, d) == [num |-> n, den |-> d]

RatEq(a, b) == a.num * b.den = b.num * a.den

RatLess(a, b) == a.num * b.den < b.num * a.den

RatAdd(a, b) == Rat(a.num * b.den + b.num * a.den, a.den * b.den)

RECURSIVE SumSeq(_)
SumSeq(s) == IF s = <<>> THEN 0 ELSE Head(s) + SumSeq(Tail(s))

RECURSIVE Concat(_)
Concat(ss) == IF ss = <<>> THEN <<>> ELSE Head(ss) \o Concat(Tail(ss))

\* Python's None where a float is expected
None == [undef |-> TRUE, num |-> 0, den |-> 1]

Float(n, d) == [undef |-> FALSE, num |-> n, den |-> d]

\* f"{x:.Nf}": the decimal with N digits after the point nearest to x (ties
\* to even), given as the integer number of 10^-N units it denotes.
Pow10(n) == IF n = 0 THEN 1 ELSE IF n = 1 THEN 10 ELSE IF n = 2 THEN 100
            ELSE IF n = 3 THEN 1000 ELSE 10000

FormatFixed(x, digits) ==
    LET scaled == x.num * Pow10(digits)
        q == scaled \div x.den
        r == scaled - q * x.den
    IN  IF 2 * r > x.den THEN q + 1
        ELSE IF 2 * r < x.den THEN q
        ELSE IF q % 2 = 0 THEN q ELSE q + 1

\* a cell of the markdown table: '' or a formatted number
Blank == [blank |-> TRUE, text |-> 0]

Cell(n) == [blank |-> FALSE, text |-> n]

(***************************************************************************)
(* The expected sequences                                                  *)
(***************************************************************************)
NumFolders == 11

\* f"{i:02}": two decimal digits
Fmt02(i) == <<i \div 10, i % 10>>

folder_names == [k \in 1..NumFolders |-> Fmt02(k - 1)]

FolderSet == {folder_names[k] : k \in 1..NumFolders}

(***************************************************************************)
(* What a result directory holds on disk, per expected sequence            *)
(***************************************************************************)
NoYaml == [exists |-> FALSE, has_field |-> FALSE, nsecs |-> 0]

YamlWithoutField == [exists |-> TRUE, has_field |-> FALSE, nsecs |-> 0]

Yaml(n) == [exists |-> TRUE, has_field |-> TRUE, nsecs |-> n]

\* folder: <dir>/<seq> exists; poses, gt: the two pose files exist;
\* poses_len, gt_len: number of poses of each file; segments: the tr_err of
\* the windows the two trajectories give, in evaluation order.
SeqFiles(folder, poses, gt, pl, gl, segs, yaml) ==
    [folder |-> folder, poses |-> poses, gt |-> gt, poses_len |-> pl,
     gt_len |-> gl, segments |-> segs, yaml |-> yaml]

NoFolder == SeqFiles(FALSE, FALSE, FALSE, 0, 0, <<>>, NoYaml)

FolderOnly == SeqFiles(TRUE, FALSE, FALSE, 0, 0, <<>>, NoYaml)

OnlyPoses == SeqFiles(TRUE, TRUE, FALSE, 2, 0, <<>>, NoYaml)

OnlyGt == SeqFiles(TRUE, FALSE, TRUE, 0, 2, <<>>, NoYaml)

\* shortest trajectory that holds a window of the smallest target length
SmallestTargetLength == 2

Evaluated(segs, yaml) == SeqFiles(TRUE, TRUE, TRUE, 2, 2, segs, yaml)

GoodSeq == Evaluated(<<1>>, Yaml(2))

ShortSeq == SeqFiles(TRUE, TRUE, TRUE, 1, 1, <<>>, Yaml(2))

MismatchSeq == SeqFiles(TRUE, TRUE, TRUE, 1, 2, <<>>, Yaml(2))

\* the sequences whose files differ from the rest of their directory
VariedFolders == {folder_names[1], folder_names[NumFolders]}

Uniform(f) == [s \in FolderSet |-> f]

Except1(f, p, g) == [s \in FolderSet |-> IF s = p THEN g ELSE f]

GoodVariants ==
    {Uniform(GoodSeq)} \cup
    {Except1(GoodSeq, p, g) : p \in VariedFolders,
        g \in {NoFolder, OnlyPoses, OnlyGt, MismatchSeq, ShortSeq,
               Evaluated(<<2>>, Yaml(2)), Evaluated(<<1, 1>>, Yaml(2)),
               Evaluated(<<1, 3>>, Yaml(2)), Evaluated(<<1>>, NoYaml),
               Evaluated(<<1>>, YamlWithoutField), Evaluated(<<1>>, Yaml(5))}}

SparseVariants ==
    {Uniform(NoFolder)} \cup
    {Except1(NoFolder, p, g) : p \in VariedFolders,
        g \in {FolderOnly, OnlyPoses, GoodSeq, ShortSeq, MismatchSeq}}

ShortVariants ==
    {Uniform(ShortSeq)} \cup
    {Except1(ShortSeq, p, g) : p \in VariedFolders, g \in {NoFolder, GoodSeq}}

DirContents == GoodVariants \cup SparseVariants \cup ShortVariants

\* os.walk lists a directory before its children: root/1, root/1/2, ...
\* (a path is the list of its components, 0 being the root directory)
DirPath(i) == <<0>> \o [k \in 1..i |-> k]

(***************************************************************************)
(* slam.eval.eval_odometry.compute_kitti_metrics                           *)
(***************************************************************************)
compute_kitti_metrics(files) ==
    IF files.poses_len # files.gt_len
    THEN [raised |-> "ShapeMismatch", tr_err |-> None, errors |-> <<>>]
    ELSE LET errors == IF files.gt_len < SmallestTargetLength
                       THEN <<>> ELSE files.segments
         IN  [raised |-> "",
              tr_err |-> IF errors = <<>> THEN None
                         ELSE Float(SumSeq(errors), Len(errors)),
              errors |-> errors]

(***************************************************************************)
(* build_benchmark: the body of the loop over directory_list               *)
(***************************************************************************)
is_metrics_dir(content) == \E s \in FolderSet : content[s].folder

HasBothFiles(f) == f.poses /\ f.gt

FoundSequences(content) == {s \in FolderSet : HasBothFiles(content[s])}

time_ms(yaml) ==
    IF yaml.exists /\ yaml.has_field
    THEN Float(yaml.nsecs * 1000, 1) ELSE Float(-1, 1)

SequenceMetrics(files) ==
    LET m == compute_kitti_metrics(files)
    IN  [tr_err |-> m.tr_err, errors |-> m.errors,
         average_time |-> time_ms(files.yaml)]

\* _errors: the error lists of new_metrics.values(), concatenated
AllErrors(seqs) ==
    Concat([k \in 1..NumFolders |->
               IF folder_names[k] \in DOMAIN seqs
               THEN seqs[folder_names[k]].errors ELSE <<>>])

RECURSIVE SumTimes(_, _)
SumTimes(seqs, k) ==
    IF k = 0 THEN Rat(0, 1)
    ELSE RatAdd(SumTimes(seqs, k - 1), seqs[folder_names[k]].average_time)

\* the mean of the per-sequence means instead of the flat mean
RECURSIVE SumTrErr(_, _)
SumTrErr(seqs, k) ==
    IF k = 0 THEN Rat(0, 1)
    ELSE RatAdd(SumTrErr(seqs, k - 1), seqs[folder_names[k]].tr_err)

AverageError_MeanOfMeans(seqs) ==
    LET total == SumTrErr(seqs, NumFolders)
    IN  Float(total.num * 100, total.den * NumFolders)

\* the mean over the sequences that have timing data only
RECURSIVE SumKnownTimes(_, _)
SumKnownTimes(seqs, k) ==
    IF k = 0 THEN Rat(0, 1)
    ELSE IF seqs[folder_names[k]].average_time.num < 0
         THEN SumKnownTimes(seqs, k - 1)
         ELSE RatAdd(SumKnownTimes(seqs, k - 1), seqs[folder_names[k]].average_time)

AverageTime_SkipMissing(seqs) ==
    LET total == SumKnownTimes(seqs, NumFolders)
        known == Cardinality({s \in DOMAIN seqs : seqs[s].average_time.num >= 0})
    IN  IF known = 0 THEN Float(-1, 1) ELSE Float(total.num, total.den * known)

AverageError(seqs) ==
    LET _errors == AllErrors(seqs)
    IN  Float(SumSeq(_errors) * 100, Len(_errors))

AverageTime(seqs) ==
    LET total == SumTimes(seqs, NumFolders)
    IN  Float(total.num, total.den * NumFolders)

HasAllSequences(content) == \A s \in FolderSet : HasBothFiles(content[s])

\* has_all_sequences stored as True whatever was found
NewMetrics_FlagStuck(content) ==
    LET seqs == [s \in FoundSequences(content) |-> SequenceMetrics(content[s])]
        has_all_sequences == HasAllSequences(content)
    IN  [seqs |-> seqs,
         AVG_tr_err |-> IF has_all_sequences THEN AverageError(seqs) ELSE Float(-1, 1),
         AVG_time |-> IF has_all_sequences THEN AverageTime(seqs) ELSE Float(-1, 1),
         has_all_sequences |-> TRUE]

NewMetrics(content) ==
    LET seqs == [s \in FoundSequences(content) |-> SequenceMetrics(content[s])]
        has_all_sequences == HasAllSequences(content)
    IN  [seqs |-> seqs,
         AVG_tr_err |-> IF has_all_sequences THEN AverageError(seqs) ELSE Float(-1, 1),
         AVG_time |-> IF has_all_sequences THEN AverageTime(seqs) ELSE Float(-1, 1),
         has_all_sequences |-> has_all_sequences]

\* the exception raised while the directory is processed, "" if none
DirectoryError(content) ==
    IF ~is_metrics_dir(content) THEN ""
    ELSE IF \E s \in FoundSequences(content) :
                compute_kitti_metrics(content[s]).raised # ""
    THEN "ShapeMismatch"
    ELSE IF /\ FoundSequences(content) # {}
            /\ HasAllSequences(content)
            /\ AllErrors([s \in FoundSequences(content) |->
                             SequenceMetrics(content[s])]) = <<>>
    THEN "ZeroDivisionError"
    ELSE ""

ProcessDirectory ==
    /\ pc = "walk"
    /\ dir_idx < Len(directory_list)
    /\ \E content \in DirContents :
        LET new_dir == directory_list[dir_idx + 1]
            err == DirectoryError(content)
        IN  /\ visited' = Append(visited, content)
            /\ dir_idx' = dir_idx + 1
            /\ IF err # ""
               THEN /\ pc' = "crashed"
                    /\ error' = err
                    /\ UNCHANGED metrics
               ELSE /\ UNCHANGED <<pc, error>>
                    /\ metrics' =
                         IF is_metrics_dir(content) /\ FoundSequences(content) # {}
                         THEN Append(metrics, [path |-> new_dir,
                                               entry |-> NewMetrics(content)])
                         ELSE metrics
    /\ UNCHANGED <<directory_list, db_metrics, main_table_lines, written>>
    /\ UNCHANGED loader_vars

(***************************************************************************)
(* build_benchmark: ranking                                                *)
(***************************************************************************)
Inf == [inf |-> TRUE, num |-> 0, den |-> 1]

Finite(x) == [inf |-> FALSE, num |-> x.num, den |-> x.den]

\* the ranking with the raw AVG_tr_err as key
SortKey_RawAverage(x) == Finite(x.avg)

\* key=lambda x: x[1] if x[2] else float("inf")
SortKey(x) == IF x.has_all_sequences THEN Finite(x.avg) ELSE Inf

KeyLess(a, b) == ~a.inf /\ (b.inf \/ RatLess(a, b))

\* an unstable sort: x goes before the elements whose key equals its own
RECURSIVE InsertSorted_BeforeEqual(_, _)
InsertSorted_BeforeEqual(sorted, x) ==
    IF sorted = <<>> THEN <<x>>
    ELSE IF ~KeyLess(SortKey(Head(sorted)), SortKey(x))
         THEN <<x>> \o sorted
         ELSE <<Head(sorted)>> \o InsertSorted_BeforeEqual(Tail(sorted), x)

\* x goes before the first element whose key is greater than its own
RECURSIVE InsertSorted(_, _)
InsertSorted(sorted, x) ==
    IF sorted = <<>> THEN <<x>>
    ELSE IF KeyLess(SortKey(x), SortKey(Head(sorted)))
         THEN <<x>> \o sorted
         ELSE <<Head(sorted)>> \o InsertSorted(Tail(sorted), x)

\* list.sort(key=...): ascending and stable
RECURSIVE SortedList(_)
SortedList(l) ==
    IF l = <<>> THEN <<>>
    ELSE InsertSorted(SortedList(SubSeq(l, 1, Len(l) - 1)), l[Len(l)])

DbMetrics(m) ==
    [i \in 1..Len(m) |-> [path |-> m[i].path,
                          avg |-> m[i].entry.AVG_tr_err,
                          has_all_sequences |-> m[i].entry.has_all_sequences]]

FinishWalk ==
    /\ pc = "walk"
    /\ dir_idx = Len(directory_list)
    /\ pc' = "rank"
    /\ UNCHANGED <<directory_list, dir_idx, visited, metrics, db_metrics,
                   main_table_lines, written, error>>
    /\ UNCHANGED loader_vars

RankEntries ==
    /\ pc = "rank"
    /\ db_metrics' = SortedList(DbMetrics(metrics))
    /\ pc' = "render"
    /\ UNCHANGED <<directory_list, dir_idx, visited, metrics,
                   main_table_lines, written, error>>
    /\ UNCHANGED loader_vars

(***************************************************************************)
(* build_benchmark: the rows of the table and the report                   *)
(***************************************************************************)
\* metrics[path]
MetricsAt(m, path) == m[CHOOSE i \in 1..Len(m) : m[i].path = path].entry

\* os.path.split(path)[1]
PathId(path) == path[Len(path)]

Times100(x) == [undef |-> x.undef, num |-> x.num * 100, den |-> x.den]

ErrorDigits == 4

TimeDigits == 3

\* f"{float(_metrics[seq]['tr_err']) * 100:.4f}" if seq in _metrics else ''
Column(_metrics, seq) ==
    IF seq \in DOMAIN _metrics.seqs
    THEN Cell(FormatFixed(Times100(_metrics.seqs[seq].tr_err), ErrorDigits))
    ELSE Blank

\* float(None) raises
RowError(_metrics) ==
    IF \E seq \in DOMAIN _metrics.seqs : _metrics.seqs[seq].tr_err.undef
    THEN "TypeError" ELSE ""

\* the aggregate printed whether or not the entry is complete
AvgCell_Always(avg, add_avg) == Cell(FormatFixed(avg, ErrorDigits))

AvgCell(avg, add_avg) ==
    IF add_avg THEN Cell(FormatFixed(avg, ErrorDigits)) ELSE Blank

TableLine(m, x) ==
    LET _metrics == MetricsAt(m, x.path)
    IN  [path_id |-> PathId(x.path),
         columns |-> [k \in 1..NumFolders |-> Column(_metrics, folder_names[k])],
         avg |-> AvgCell(x.avg, x.has_all_sequences),
         avg_time |-> Cell(FormatFixed(_metrics.AVG_time, TimeDigits))]

RenderTable ==
    /\ pc = "render"
    /\ LET failing == {i \in 1..Len(db_metrics) :
                         RowError(MetricsAt(metrics, db_metrics[i].path)) # ""}
       IN  IF failing # {}
           THEN /\ pc' = "crashed"
                /\ error' = "TypeError"
                /\ UNCHANGED main_table_lines
           ELSE /\ pc' = "write"
                /\ main_table_lines' =
                     [i \in 1..Len(db_metrics) |-> TableLine(metrics, db_metrics[i])]
                /\ UNCHANGED error
    /\ UNCHANGED <<directory_list, dir_idx, visited, metrics, db_metrics, written>>
    /\ UNCHANGED loader_vars

WriteReport ==
    /\ pc = "write"
    /\ written' = TRUE
    /\ pc' = "done"
    /\ UNCHANGED <<directory_list, dir_idx, visited, metrics, db_metrics,
                   main_table_lines, error>>
    /\ UNCHANGED loader_vars

(***************************************************************************)
(* CT_ICPDatasetLoader                                                     *)
(***************************************************************************)
MaxRequest == 2     \* longest configured list of sequence names

Town(i) == <<"Town", i \div 10, i % 10>>

KITTI_SEQUENCE == {Fmt02(i) : i \in (0..21) \ {3}}

KITTI_CARLA_SEQUENCE == {Town(1 + i) : i \in 0..6}

have_sequence(seq_name) ==
    seq_name \in KITTI_SEQUENCE \/ seq_name \in KITTI_CARLA_SEQUENCE

\* names a configuration may ask for: two the loader knows, one it does not
RequestNames == {Fmt02(0), Fmt02(3), Town(1)}

\* the sequences the dataset on disk may hold, as pct.get_sequences lists them
SequenceLists ==
    {<<>>, <<Fmt02(0)>>, <<Town(1)>>, <<Fmt02(0), Town(1)>>, <<Town(1), Fmt02(0)>>}

\* {pct.sequence_name(options, seq_id): seq_id for seq_id, _ in list_seqid_seqsize}
SeqnameToSeqid(names) ==
    [n \in {names[i] : i \in 1..Len(names)} |->
        (CHOOSE i \in 1..Len(names) : names[i] = n) - 1]

NoList == [is_none |-> TRUE, names |-> <<>>]

List(l) == [is_none |-> FALSE, names |-> l]

ConfiguredLists ==
    {NoList} \cup
    {List(l) : l \in UNION {[1..n -> RequestNames] : n \in 0..MaxRequest}}

ReturnedNone == [is_none |-> TRUE, datasets |-> <<>>, sequence_names |-> <<>>]

CT_ICPDatasetSequence(seq_id) == [sequence_id |-> seq_id]

Skipped(map, seq_name) ==
    ~have_sequence(seq_name) \/ seq_name \notin DOMAIN map

RECURSIVE KeptNames(_, _)
KeptNames(map, names) ==
    IF names = <<>> THEN <<>>
    ELSE IF Skipped(map, Head(names))
         THEN KeptNames(map, Tail(names))
         ELSE <<Head(names)>> \o KeptNames(map, Tail(names))

\* None returned when no requested sequence is kept
get_datasets_NoneWhenEmpty(map, sequences) ==
    IF sequences.is_none \/ KeptNames(map, sequences.names) = <<>>
    THEN ReturnedNone
    ELSE LET sequence_names == KeptNames(map, sequences.names)
         IN  [is_none |-> FALSE,
              datasets |-> [k \in 1..Len(sequence_names) |->
                               CT_ICPDatasetSequence(map[sequence_names[k]])],
              sequence_names |-> sequence_names]

get_datasets(map, sequences) ==
    IF sequences.is_none \/ Len(sequences.names) = 0
    THEN ReturnedNone
    ELSE LET sequence_names == KeptNames(map, sequences.names)
         IN  [is_none |-> FALSE,
              datasets |-> [k \in 1..Len(sequence_names) |->
                               CT_ICPDatasetSequence(map[sequence_names[k]])],
              sequence_names |-> sequence_names]

NotCalled == [called |-> FALSE, train |-> ReturnedNone, eval |-> ReturnedNone,
              test |-> ReturnedNone]

Sequences ==
    /\ ~result.called
    /\ result' = [called |-> TRUE,
                  train |-> get_datasets(seqname_to_seqid, config.train_sequences),
                  eval |-> get_datasets(seqname_to_seqid, config.eval_sequences),
                  test |-> get_datasets(seqname_to_seqid, config.test_sequences)]
    /\ UNCHANGED <<config, seqname_to_seqid>>
    /\ UNCHANGED bench_vars

(***************************************************************************)
(* Specifications                                                          *)
(***************************************************************************)
BenchInit ==
    /\ pc = "walk"
    /\ directory_list \in {[i \in 1..n |-> DirPath(i)] : n \in 0..MaxDirs}
    /\ dir_idx = 0
    /\ visited = <<>>
    /\ metrics = <<>>
    /\ db_metrics = <<>>
    /\ main_table_lines = <<>>
    /\ written = FALSE
    /\ error = ""

LoaderInit ==
    /\ config \in [train_sequences : ConfiguredLists,
                   eval_sequences : ConfiguredLists,
                   test_sequences : ConfiguredLists]
    /\ seqname_to_seqid \in {SeqnameToSeqid(l) : l \in SequenceLists}
    /\ result = NotCalled

\* build_benchmark, the loader left unconfigured
Init ==
    /\ BenchInit
    /\ config = [train_sequences |-> NoList, eval_sequences |-> NoList,
                 test_sequences |-> NoList]
    /\ seqname_to_seqid = SeqnameToSeqid(<<>>)
    /\ result = NotCalled

Next ==
    \/ ProcessDirectory
    \/ FinishWalk
    \/ RankEntries
    \/ RenderTable
    \/ WriteReport

Spec == Init /\ [][Next]_vars

\* CT_ICPDatasetLoader.sequences(), build_benchmark not started
InitLoader ==
    /\ LoaderInit
    /\ pc = "idle"
    /\ directory_list = <<>>
    /\ dir_idx = 0
    /\ visited = <<>>
    /\ metrics = <<>>
    /\ db_metrics = <<>>
    /\ main_table_lines = <<>>
    /\ written = FALSE
    /\ error = ""

NextLoader == Sequences

SpecLoader == InitLoader /\ [][NextLoader]_vars

(***************************************************************************)
(* Properties                                                              *)
(***************************************************************************)
Ranked == pc \in {"render", "write", "done"} \/ (pc = "crashed" /\ error = "TypeError")

\* what was on disk under the directory of a recorded entry
ContentOf(path) == visited[PathId(path)]

\* position of a path in the metrics mapping (encounter order)
EncounterIndex(path) == CHOOSE i \in 1..Len(metrics) : metrics[i].path = path

IsPermutationOfEntries ==
    /\ Len(db_metrics) = Len(metrics)
    /\ \A i \in 1..Len(metrics) :
          \E j \in 1..Len(db_metrics) :
              /\ db_metrics[j].path = metrics[i].path
              /\ db_metrics[j].avg = metrics[i].entry.AVG_tr_err
              /\ db_metrics[j].has_all_sequences = metrics[i].entry.has_all_sequences

C2_StableAscending ==
    Ranked =>
        /\ IsPermutationOfEntries
        /\ \A i, j \in 1..Len(db_metrics) :
              i < j =>
                LET a == db_metrics[i]
                    b == db_metrics[j]
                IN  /\ (a.has_all_sequences /\ b.has_all_sequences)
                          => /\ ~RatLess(b.avg, a.avg)
                             /\ RatEq(a.avg, b.avg)
                                  => EncounterIndex(a.path) < EncounterIndex(b.path)
                    /\ (~a.has_all_sequences /\ ~b.has_all_sequences)
                          => EncounterIndex(a.path) < EncounterIndex(b.path)

\* two complete entries computed from different segment lists tie on AVG_tr_err
C2_Witness ==
    /\ pc = "render"
    /\ \E i, j \in 1..Len(db_metrics) :
          /\ i < j
          /\ db_metrics[i].has_all_sequences
          /\ db_metrics[j].has_all_sequences
          /\ RatEq(db_metrics[i].avg, db_metrics[j].avg)
          /\ db_metrics[i].avg # db_metrics[j].avg

RECURSIVE SegmentSum(_, _)
SegmentSum(content, k) ==
    IF k = 0 THEN 0
    ELSE SegmentSum(content, k - 1) + SumSeq(content[folder_names[k]].segments)

RECURSIVE SegmentCount(_, _)
SegmentCount(content, k) ==
    IF k = 0 THEN 0
    ELSE SegmentCount(content, k - 1) + Len(content[folder_names[k]].segments)

\* 100 * (sum of the per-sequence mean errors) / number of sequences
RECURSIVE SumOfMeans(_, _)
SumOfMeans(content, k) ==
    IF k = 0 THEN Rat(0, 1)
    ELSE LET segs == content[folder_names[k]].segments
         IN  RatAdd(SumOfMeans(content, k - 1), Rat(SumSeq(segs), Len(segs)))

\* C3: for a complete entry AVG_tr_err is 100 times the sum of the tr_err of
\* every segment of every sequence divided by the total number of segments.
C3_FlatMean ==
    \A i \in 1..Len(metrics) :
        LET e == metrics[i].entry
            c == ContentOf(metrics[i].path)
        IN  e.has_all_sequences =>
              /\ ~e.AVG_tr_err.undef
              /\ SegmentCount(c, NumFolders) > 0
              /\ e.AVG_tr_err.num * SegmentCount(c, NumFolders)
                    = 100 * SegmentSum(c, NumFolders) * e.AVG_tr_err.den

\* a complete entry whose sequences differ in segment count and in mean, so
\* that the flat mean is not the mean of the per-sequence means
C3_Witness ==
    \E i \in 1..Len(metrics) :
        LET e == metrics[i].entry
            c == ContentOf(metrics[i].path)
        IN  /\ e.has_all_sequences
            /\ \A s \in FolderSet : c[s].segments # <<>>
            /\ LET mm == SumOfMeans(c, NumFolders)
               IN  ~RatEq(e.AVG_tr_err, Rat(100 * mm.num, mm.den * NumFolders))

ExpectedTime(yaml) ==
    IF yaml.exists /\ yaml.has_field THEN yaml.nsecs * 1000 ELSE -1

RECURSIVE ExpectedTimeSum(_, _)
ExpectedTimeSum(content, k) ==
    IF k = 0 THEN 0
    ELSE ExpectedTimeSum(content, k - 1) + ExpectedTime(content[folder_names[k]].yaml)

\* C4: for a complete entry AVG_time is the sum over the 11 expected
\* sequences of nsecs_per_frame * 1000.0, or of -1.0 where metrics.yaml or the
\* field is missing, divided by 11.
C4_AverageTime ==
    \A i \in 1..Len(metrics) :
        LET e == metrics[i].entry
            c == ContentOf(metrics[i].path)
        IN  e.has_all_sequences =>
              /\ ~e.AVG_time.undef
              /\ e.AVG_time.num * 11 = ExpectedTimeSum(c, NumFolders) * e.AVG_time.den

\* a complete entry with a sequence that has no timing data
C4_Witness ==
    \E i \in 1..Len(metrics) :
        LET e == metrics[i].entry
            c == ContentOf(metrics[i].path)
        IN  /\ e.has_all_sequences
            /\ \E s \in FolderSet : ~c[s].yaml.exists
            /\ \E s \in FolderSet : c[s].yaml.exists /\ c[s].yaml.has_field
            /\ RatEq(e.AVG_time, Rat(19999, 11))

Recorded(i) == \E k \in 1..Len(metrics) : metrics[k].path = DirPath(i)

EntryOfDir(i) == MetricsAt(metrics, DirPath(i))

\* the sequences of a directory whose two pose files differ in length
Mismatched(content) ==
    {s \in FolderSet : /\ content[s].poses /\ content[s].gt
                       /\ content[s].poses_len # content[s].gt_len}

\* the sequences of a directory whose trajectories hold no window
Windowless(content) ==
    {s \in FolderSet : /\ content[s].poses /\ content[s].gt
                       /\ content[s].poses_len = content[s].gt_len
                       /\ content[s].gt_len < SmallestTargetLength}

\* C5: a ShapeMismatch in one sequence does not abort the run: the entry of
\* its directory is recorded with has_all_sequences = FALSE and the walk goes on.
C5_ShapeMismatchIsolated ==
    \A i \in 1..Len(visited) :
        Mismatched(visited[i]) # {} =>
            /\ pc # "crashed"
            /\ Recorded(i)
            /\ ~EntryOfDir(i).has_all_sequences

\* C6: a sequence without any window has an undefined error, distinct from
\* 0.0; the aggregation of its entry neither fails nor divides by zero, and
\* an entry with no other data ends with has_all_sequences = FALSE.
C6_WindowlessSequence ==
    \A i \in 1..Len(visited) :
        (Windowless(visited[i]) # {} /\ Mismatched(visited[i]) = {}) =>
            /\ ~(pc = "crashed" /\ error = "ZeroDivisionError")
            /\ Recorded(i) =>
                 /\ \A s \in Windowless(visited[i]) : EntryOfDir(i).seqs[s].tr_err.undef
                 /\ (\A s \in FolderSet : visited[i][s].segments = <<>>)
                       => ~EntryOfDir(i).has_all_sequences

\* C7: a run that found no result set at all ends in a failure, not in a report.
C7_NoEntriesIsFailure == written => Len(metrics) > 0

\* C8: an entry is recorded for every directory with at least one sequence
\* that has both pose files; its has_all_sequences is TRUE exactly when all 11
\* sequences have both files; otherwise AVG_tr_err and AVG_time are -1.0 and
\* the entry holds the metrics of exactly the sequences found.
C8_HasAllSequences ==
    /\ pc # "crashed" =>
          \A i \in 1..Len(visited) :
              Recorded(i) <=> (\E s \in FolderSet : visited[i][s].poses /\ visited[i][s].gt)
    /\ \A k \in 1..Len(metrics) :
          LET e == metrics[k].entry
              c == ContentOf(metrics[k].path)
              found == {s \in FolderSet : c[s].poses /\ c[s].gt}
          IN  /\ e.has_all_sequences <=> (found = FolderSet)
              /\ DOMAIN e.seqs = found
              /\ \A s \in found :
                    /\ e.seqs[s].errors = c[s].segments
                    /\ e.seqs[s].average_time.num = ExpectedTime(c[s].yaml)
                    /\ e.seqs[s].average_time.den = 1
              /\ ~e.has_all_sequences =>
                    /\ e.AVG_tr_err = Float(-1, 1)
                    /\ e.AVG_time = Float(-1, 1)

\* an entry recorded with ten sequences found and one that lacks its
\* ground-truth file
C8_Witness ==
    \E k \in 1..Len(metrics) :
        LET e == metrics[k].entry
            c == ContentOf(metrics[k].path)
        IN  /\ ~e.has_all_sequences
            /\ Cardinality(DOMAIN e.seqs) = NumFolders - 1
            /\ \E s \in FolderSet : c[s].poses /\ ~c[s].gt

\* n is x written with the given number of decimals: the nearest multiple of
\* 10^-digits
IsNearest(n, x, digits) ==
    LET d == n * x.den - x.num * Pow10(digits)
    IN  2 * d <= x.den /\ 2 * d >= -x.den

\* C9: the report has one row per recorded entry, in ranked order; a row
\* gives the last path component, per expected sequence in the order 00..10
\* tr_err * 100 with 4 decimals or a blank if the sequence is missing, the
\* aggregate error with 4 decimals or a blank if the entry is incomplete, and
\* the aggregate time with 3 decimals.
C9_ReportRows ==
    written =>
        /\ Len(main_table_lines) = Len(metrics)
        /\ Len(main_table_lines) = Len(db_metrics)
        /\ \A i \in 1..Len(main_table_lines) :
              LET line == main_table_lines[i]
                  path == db_metrics[i].path
                  e == MetricsAt(metrics, path)
                  c == ContentOf(path)
              IN  /\ line.path_id = path[Len(path)]
                  /\ Len(line.columns) = 11
                  /\ \A k \in 1..11 :
                        LET f == c[Fmt02(k - 1)]
                        IN  IF f.poses /\ f.gt
                            THEN /\ ~line.columns[k].blank
                                 /\ IsNearest(line.columns[k].text,
                                              Rat(100 * SumSeq(f.segments), Len(f.segments)), 4)
                            ELSE line.columns[k].blank
                  /\ line.avg.blank <=> ~e.has_all_sequences
                  /\ ~line.avg.blank => IsNearest(line.avg.text, e.AVG_tr_err, 4)
                  /\ ~line.avg_time.blank
                  /\ IsNearest(line.avg_time.text, e.AVG_time, 3)
                  /\ ~e.has_all_sequences => line.avg_time.text = -1000

\* a report with the row of a complete entry whose errors do not end after 4
\* decimals, then the row of an incomplete entry
C9_Witness ==
    /\ written
    /\ Len(main_table_lines) = 2
    /\ ~main_table_lines[1].avg.blank
    /\ main_table_lines[1].avg.text = 1166667
    /\ main_table_lines[2].avg.blank
    /\ main_table_lines[2].avg_time.text = -1000
    /\ \E k \in 1..NumFolders : main_table_lines[2].columns[k].blank
    /\ \E k \in 1..NumFolders : ~main_table_lines[2].columns[k].blank

KeptIndexes(map, names) ==
    {i \in 1..Len(names) : have_sequence(names[i]) /\ names[i] \in DOMAIN map}

ReturnsAsConfigured(configured, returned) ==
    IF configured.is_none \/ configured.names = <<>>
    THEN returned.is_none
    ELSE LET kept == KeptIndexes(seqname_to_seqid, configured.names)
         IN  /\ ~returned.is_none
             /\ Len(returned.sequence_names) = Cardinality(kept)
             /\ Len(returned.datasets) = Cardinality(kept)
             /\ \A i \in kept :
                   LET k == Cardinality({j \in kept : j <= i})
                   IN  /\ returned.sequence_names[k] = configured.names[i]
                       /\ returned.datasets[k].sequence_id
                             = seqname_to_seqid[configured.names[i]]

\* C10: sequences() returns, for each of the train, eval and test lists, None
\* if the list is None or empty, and otherwise the requested names that the
\* loader knows and the dataset holds, in request order, with one dataset per
\* name built from that name's sequence id.
C10_Sequences ==
    result.called =>
        /\ ReturnsAsConfigured(config.train_sequences, result.train)
        /\ ReturnsAsConfigured(config.eval_sequences, result.eval)
        /\ ReturnsAsConfigured(config.test_sequences, result.test)

\* train asks for an unknown and a held sequence, eval only for sequences
\* that are skipped, test for nothing
C10_Witness ==
    /\ result.called
    /\ config.train_sequences = List(<<Fmt02(3), Town(1)>>)
    /\ result.train.sequence_names = <<Town(1)>>
    /\ result.train.datasets = <<CT_ICPDatasetSequence(0)>>
    /\ config.eval_sequences = List(<<Fmt02(0)>>)
    /\ ~result.eval.is_none
    /\ result.eval.sequence_names = <<>>
    /\ result.eval.datasets = <<>>
    /\ config.test_sequences = List(<<>>)
    /\ result.test.is_none

====
